---- MODULE Spec2Model ----
(***************************************************************************)
(* Model of MilaUpdateCoordinator                                          *)
(* (custom_components/mila/update_coordinator.py).                         *)
(*                                                                         *)
(* The coordinator is modelled as two cooperating coroutines on one event  *)
(* loop: async_setup and _async_update_data.  Every step of the model is   *)
(* the code that runs between two suspension points (the awaits on the     *)
(* API client and on the host).  async_reset is a third operation that may *)
(* run between any two such steps.                                         *)
(***************************************************************************)
EXTENDS Integers, Sequences, FiniteSets, TLC

(***************************************************************************)
(* Bounds of the model.                                                    *)
(***************************************************************************)
MaxAppliances == 2        \* appliance ids 1..N known to the cloud
MaxLocations  == 1        \* location ids 1..N known to the cloud
NumAccounts   == 2        \* distinct account records
MaxFetchLen   == 2        \* longest list one fetch returns

(***************************************************************************)
(* Keys of the snapshot (imported from .const).                            *)
(***************************************************************************)
DATAKEY_ACCOUNT   == "account"
DATAKEY_APPLIANCE == "appliances"
DATAKEY_LOCATION  == "locations"

PLATFORMS == <<"sensor", "switch", "fan", "select">>

(***************************************************************************)
(* Python values.                                                          *)
(***************************************************************************)
None      == [py |-> "None"]            \* the value None of self.data
EmptyDict == [k \in {} |-> k]           \* {}

\* Identifiers are the cloud's own and pass through as strings.  Appliances
\* and locations are numbered independently, so the same identifier can name
\* an appliance and a location.
ApplianceIds == {ToString(i) : i \in 1..MaxAppliances}
LocationIds  == {ToString(i) : i \in 1..MaxLocations}
Accounts     == {"acct" \o ToString(i) : i \in 1..NumAccounts}

\* The records the client returns are passed through unread except for their
\* id, so a record is modelled by its id field alone.
ApplianceRecords == [id : ApplianceIds]
LocationRecords  == [id : LocationIds]

Lists(S) == UNION {[1..n -> S] : n \in 0..MaxFetchLen}

\* What one awaited call on the API client can end in: a value, one of the
\* SDK's two error kinds, or the expiry of the enclosing async_timeout.
ApiErrors == {"OAuthError", "MilaError", "TimeoutError"}

(***************************************************************************)
(* Pure parts of _async_update_data.                                       *)
(***************************************************************************)

\* {x["id"]: x for x in xs}: a later record with the same id replaces an
\* earlier one.
RECURSIVE ApplianceDict(_)
ApplianceDict(xs) ==
    IF xs = <<>> THEN EmptyDict
    ELSE LET x == xs[Len(xs)]
         IN  (x.id :> x) @@ ApplianceDict(SubSeq(xs, 1, Len(xs) - 1))

\* Variant of the location key without the prefix.
LocKey_NoPrefix(id) == id

\* f"loc_{x['id']}"
LocKey(id) == "loc_" \o id

\* {f"loc_{x['id']}": x for x in xs}
RECURSIVE LocationDict(_)
LocationDict(xs) ==
    IF xs = <<>> THEN EmptyDict
    ELSE LET x == xs[Len(xs)]
         IN  (LocKey(x.id) :> x) @@ LocationDict(SubSeq(xs, 1, Len(xs) - 1))

\* Variant of existing_appliances that never finds a stored snapshot.
ExistingAppliances_Empty(stored) == {}

\* existing_appliances: the appliance keys of the stored snapshot, [] if none.
ExistingAppliances(stored) ==
    IF stored # None THEN DOMAIN stored[DATAKEY_APPLIANCE] ELSE {}

\* Variants of the except clauses, used to see what the properties rest on.
Handle_AuthAsUpdateFailed(exc) ==
    CASE exc = "OAuthError" -> "UpdateFailed"
      [] exc = "MilaError"  -> "UpdateFailed"
      [] OTHER              -> exc

Handle_TimeoutAsUpdateFailed(exc) ==
    CASE exc = "OAuthError"   -> "ConfigEntryAuthFailed"
      [] exc = "MilaError"    -> "UpdateFailed"
      [] exc = "TimeoutError" -> "UpdateFailed"
      [] OTHER                -> exc

Handle_NoGenericClause(exc) ==
    CASE exc = "OAuthError" -> "ConfigEntryAuthFailed"
      [] OTHER              -> exc

\* The except clauses: OAuthError becomes ConfigEntryAuthFailed, MilaError
\* becomes UpdateFailed, anything else leaves the coroutine as it is.
Handle(exc) ==
    CASE exc = "OAuthError" -> "ConfigEntryAuthFailed"
      [] exc = "MilaError"  -> "UpdateFailed"
      [] OTHER              -> exc

\* Variants of the exits of the coroutine: an error that is swallowed and the
\* dict assembled so far returned.
Result_SwallowMilaError(exc, d) ==
    IF exc \in {"None", "MilaError"} THEN [raised |-> "None", value |-> d]
    ELSE [raised |-> Handle(exc), value |-> None]

Result_SwallowTimeout(exc, d) ==
    IF exc \in {"None", "TimeoutError"} THEN [raised |-> "None", value |-> d]
    ELSE [raised |-> Handle(exc), value |-> None]

\* What the coroutine hands to its caller: the assembled dict when nothing
\* was raised, otherwise the translated exception and no value.
Result(exc, d) ==
    IF exc = "None" THEN [raised |-> "None", value |-> d]
    ELSE [raised |-> Handle(exc), value |-> None]

\* How a refresh that ended is reported.
Outcome(res) == IF res.raised = "None" THEN "ok" ELSE res.raised

MilaAppliance(id) == [kind |-> "Appliance", id |-> id]
MilaLocation(id)  == [kind |-> "Location", id |-> id]

\* Variant of _build_devices without the second loop.
BuildDevices_NoLocations(devs, client, d) ==
    IF client = "None" THEN devs
    ELSE LET apps == [id \in DOMAIN d[DATAKEY_APPLIANCE] |-> MilaAppliance(id)]
         IN  apps @@ devs

\* _build_devices: one MilaAppliance per appliance key, then one MilaLocation
\* per location key, written into self.devices in that order.
BuildDevices(devs, client, d) ==
    IF client = "None" THEN devs
    ELSE LET apps == [id \in DOMAIN d[DATAKEY_APPLIANCE] |-> MilaAppliance(id)]
             locs == [id \in DOMAIN d[DATAKEY_LOCATION] |-> MilaLocation(id)]
         IN  locs @@ apps @@ devs

\* Variant of _detect_new_devices that forgets to subtract the known ids.
DetectNewDevices_All(old, new) == DOMAIN new

\* _detect_new_devices: the ids that get a "New device ... detected" notice.
DetectNewDevices(old, new) == DOMAIN new \ old

\* Variant of lines 109-114 that builds on every refresh.
DevicesAfter_AlwaysBuild(first, devs, client, d) == BuildDevices(devs, client, d)

\* Lines 109-114: the registry after the three fetches have succeeded.
DevicesAfter(first, devs, client, d) ==
    IF first THEN BuildDevices(devs, client, d) ELSE devs

\* Lines 109-114: the notices logged after the three fetches have succeeded.
NoticesAfter(first, old, d) ==
    IF first THEN {} ELSE DetectNewDevices(old, d[DATAKEY_APPLIANCE])

(***************************************************************************)
(* State.                                                                  *)
(***************************************************************************)
VARIABLES
    api,                 \* self._api: "None" or "MilaApi"
    initialized,         \* self._initialized
    devices,             \* self.devices
    self_data,           \* self.data, the stored snapshot (None before one)
    platforms,           \* TRUE while the host has the PLATFORMS set up
    setup_pc,            \* where async_setup is
    setup_result,        \* what the last async_setup returned or raised
    pc,                  \* the call _async_update_data is waiting on
    caller,              \* who started the refresh in flight
    data,                \* local data of the refresh in flight
    existing_appliances, \* local existing_appliances of the refresh in flight
    first_run,           \* whether the refresh took the not-initialized branch
    calls,               \* API calls issued by the current or last refresh
    outcome,             \* how the last refresh ended
    cause,               \* the error that ended it, and the phase it hit
    notices,             \* ids named in "New device" notices of that refresh
    first_account,       \* account record of the first successful refresh
    unload_ok,           \* what the last async_reset returned
    prev_failed,         \* whether the refresh before this one ended in failure
    fetched              \* ids in the lists the client returned to this refresh

vars == <<api, initialized, devices, self_data, platforms, setup_pc,
          setup_result, pc, caller, data, existing_appliances, first_run,
          calls, outcome, cause, notices, first_account, unload_ok,
          prev_failed, fetched>>

NoCause == [phase |-> "None", kind |-> "None"]
NothingFetched == [appliances |-> {}, locations |-> {}]

\* The ids of the records of a list.
Ids(xs) == {xs[i].id : i \in 1..Len(xs)}

Init ==
    /\ api = "None"
    /\ initialized = FALSE
    /\ devices = EmptyDict
    /\ self_data = None
    /\ platforms = FALSE
    /\ setup_pc = "idle"
    /\ setup_result = "None"
    /\ pc = "idle"
    /\ caller = "None"
    /\ data = EmptyDict
    /\ existing_appliances = {}
    /\ first_run = FALSE
    /\ calls = <<>>
    /\ outcome = "None"
    /\ cause = NoCause
    /\ notices = {}
    /\ first_account = "None"
    /\ unload_ok = "None"
    /\ prev_failed = FALSE
    /\ fetched = NothingFetched

(***************************************************************************)
(* _async_update_data.                                                     *)
(***************************************************************************)

\* Variant of lines 89-105 that asks for the account on every refresh.
Begin_AlwaysAccount(who) ==
    /\ caller' = who
    /\ data' = EmptyDict
    /\ existing_appliances' = ExistingAppliances(self_data)
    /\ first_run' = ~initialized
    /\ outcome' = "running"
    /\ cause' = NoCause
    /\ notices' = {}
    /\ prev_failed' = (cause.kind # "None")
    /\ fetched' = NothingFetched
    /\ pc' = "get_account"
    /\ calls' = <<"get_account">>

\* Variant of lines 89-105 that asks for the appliances first, also on the
\* first run.
Begin_AppliancesFirst(who) ==
    /\ caller' = who
    /\ data' = EmptyDict
    /\ existing_appliances' = ExistingAppliances(self_data)
    /\ first_run' = ~initialized
    /\ outcome' = "running"
    /\ cause' = NoCause
    /\ notices' = {}
    /\ prev_failed' = (cause.kind # "None")
    /\ fetched' = NothingFetched
    /\ pc' = "get_appliances"
    /\ calls' = <<"get_appliances">>

\* Lines 89-105, up to the first await on the client: the locals are set, and
\* the account is asked for only while the coordinator is not initialized.
Begin(who) ==
    /\ caller' = who
    /\ data' = EmptyDict
    /\ existing_appliances' = ExistingAppliances(self_data)
    /\ first_run' = ~initialized
    /\ outcome' = "running"
    /\ cause' = NoCause
    /\ notices' = {}
    /\ prev_failed' = (cause.kind # "None")
    /\ fetched' = NothingFetched
    /\ IF ~initialized
       THEN /\ pc' = "get_account"
            /\ calls' = <<"get_account">>
       ELSE /\ pc' = "get_appliances"
            /\ calls' = <<"get_appliances">>

\* Variant in which a failing refresh clears the initialized flag.
Fail_ResetsInitialized(exc, phase) ==
    /\ outcome' = Outcome(Result(exc, data))
    /\ cause' = [phase |-> phase, kind |-> exc]
    /\ pc' = "idle"
    /\ initialized' = FALSE
    /\ IF caller = "setup"
       THEN /\ setup_pc' = "raised"
            /\ setup_result' = "raised"
       ELSE UNCHANGED <<setup_pc, setup_result>>
    /\ data' = EmptyDict
    /\ existing_appliances' = {}
    /\ fetched' = NothingFetched
    /\ UNCHANGED <<api, self_data, devices, platforms, caller, first_run,
                   calls, notices, first_account, unload_ok, prev_failed>>

\* Variant in which async_setup catches the failure of its first refresh and
\* goes on with lines 63-66.
Fail_SetupGoesOn(exc, phase) ==
    /\ outcome' = Outcome(Result(exc, data))
    /\ cause' = [phase |-> phase, kind |-> exc]
    /\ pc' = "idle"
    /\ IF caller = "setup"
       THEN /\ setup_pc' = "forward_entry_setups"
            /\ initialized' = TRUE
       ELSE UNCHANGED <<setup_pc, initialized>>
    /\ data' = EmptyDict
    /\ existing_appliances' = {}
    /\ fetched' = NothingFetched
    /\ UNCHANGED <<api, self_data, devices, platforms, caller, first_run,
                   calls, notices, first_account, unload_ok, prev_failed,
                   setup_result>>

\* The refresh leaves through an except clause or an uncaught exception:
\* nothing is returned, so the host keeps the snapshot it has; a failing
\* first refresh also ends async_setup at line 62.
Fail(exc, phase) ==
    /\ outcome' = Outcome(Result(exc, data))
    /\ cause' = [phase |-> phase, kind |-> exc]
    /\ pc' = "idle"
    /\ self_data' = IF Result(exc, data).raised = "None"
                    THEN Result(exc, data).value ELSE self_data
    /\ IF caller = "setup"
       THEN /\ setup_pc' = "raised"
            /\ setup_result' = "raised"
       ELSE UNCHANGED <<setup_pc, setup_result>>
    /\ data' = EmptyDict
    /\ existing_appliances' = {}
    /\ fetched' = NothingFetched
    /\ UNCHANGED <<api, initialized, devices, platforms, caller, first_run,
                   calls, notices, first_account, unload_ok, prev_failed>>

\* The host asks for a refresh.  Its timer runs for a coordinator that setup
\* has marked initialized, one refresh at a time; before that the only
\* refresh with a client is the one async_setup itself awaits at line 62.  A
\* refresh asked for while the client is still None ends at line 97, before
\* the first await.
Tick ==
    /\ pc = "idle"
    /\ initialized \/ api = "None"
    /\ IF api = "None"
       THEN /\ outcome' = Outcome(Result("UpdateFailed", EmptyDict))
            /\ cause' = [phase |-> "api_check", kind |-> "UpdateFailed"]
            /\ caller' = "tick"
            /\ data' = EmptyDict
            /\ existing_appliances' = {}
            /\ first_run' = ~initialized
            /\ calls' = <<>>
            /\ notices' = {}
            /\ prev_failed' = (cause.kind # "None")
            /\ fetched' = NothingFetched
            /\ UNCHANGED <<pc, self_data>>
       ELSE /\ Begin("tick")
            /\ UNCHANGED self_data
    /\ UNCHANGED <<api, initialized, devices, platforms, setup_pc,
                   setup_result, first_account, unload_ok>>

\* await self._api.get_account() comes back.
AccountResponse ==
    /\ pc = "get_account"
    /\ \/ \E acct \in Accounts :
            /\ data' = (DATAKEY_ACCOUNT :> acct) @@ data
            /\ pc' = "get_appliances"
            /\ calls' = Append(calls, "get_appliances")
            /\ UNCHANGED <<api, initialized, devices, self_data, platforms,
                           setup_pc, setup_result, caller,
                           existing_appliances, first_run, outcome, cause,
                           notices, first_account, unload_ok, prev_failed,
                           fetched>>
       \/ \E exc \in ApiErrors : Fail(exc, "get_account")

\* Variant of the appliances step that registers the appliances as soon as
\* they arrive.
AppliancesResponse_EagerBuild ==
    /\ pc = "get_appliances"
    /\ \/ \E xs \in Lists(ApplianceRecords) :
            /\ data' = (DATAKEY_APPLIANCE :> ApplianceDict(xs)) @@ data
            /\ devices' = [id \in DOMAIN ApplianceDict(xs) |-> MilaAppliance(id)]
                              @@ devices
            /\ pc' = "get_location_data"
            /\ calls' = Append(calls, "get_location_data")
            /\ fetched' = [fetched EXCEPT !.appliances = Ids(xs)]
            /\ UNCHANGED <<api, initialized, self_data, platforms,
                           setup_pc, setup_result, caller,
                           existing_appliances, first_run, outcome, cause,
                           notices, first_account, unload_ok, prev_failed>>
       \/ \E exc \in ApiErrors : Fail(exc, "get_appliances")

\* Variant of the appliances step that adds the fetched appliances to the
\* ones of the stored snapshot.
AppliancesResponse_Merges ==
    /\ pc = "get_appliances"
    /\ \/ \E xs \in Lists(ApplianceRecords) :
            /\ data' = (DATAKEY_APPLIANCE :>
                           (ApplianceDict(xs) @@
                              (IF self_data # None
                               THEN self_data[DATAKEY_APPLIANCE]
                               ELSE EmptyDict))) @@ data
            /\ pc' = "get_location_data"
            /\ calls' = Append(calls, "get_location_data")
            /\ fetched' = [fetched EXCEPT !.appliances = Ids(xs)]
            /\ UNCHANGED <<api, initialized, devices, self_data, platforms,
                           setup_pc, setup_result, caller,
                           existing_appliances, first_run, outcome, cause,
                           notices, first_account, unload_ok, prev_failed>>
       \/ \E exc \in ApiErrors : Fail(exc, "get_appliances")

\* await self._api.get_appliances() comes back.
AppliancesResponse ==
    /\ pc = "get_appliances"
    /\ \/ \E xs \in Lists(ApplianceRecords) :
            /\ data' = (DATAKEY_APPLIANCE :> ApplianceDict(xs)) @@ data
            /\ pc' = "get_location_data"
            /\ calls' = Append(calls, "get_location_data")
            /\ fetched' = [fetched EXCEPT !.appliances = Ids(xs)]
            /\ UNCHANGED <<api, initialized, devices, self_data, platforms,
                           setup_pc, setup_result, caller,
                           existing_appliances, first_run, outcome, cause,
                           notices, first_account, unload_ok, prev_failed>>
       \/ \E exc \in ApiErrors : Fail(exc, "get_appliances")

\* await self._api.get_location_data() comes back; on a value the rest of
\* the coroutine runs (lines 107-116), the host stores what it returns, and
\* async_setup, when it is the caller, goes on to lines 63-66.
LocationsResponse ==
    /\ pc = "get_location_data"
    /\ \/ \E xs \in Lists(LocationRecords) :
            LET d == (DATAKEY_LOCATION :> LocationDict(xs)) @@ data
                first == ~initialized
                res == Result("None", d)
            IN  /\ data' = EmptyDict
                /\ existing_appliances' = {}
                /\ devices' = DevicesAfter(first, devices, api, d)
                /\ notices' = NoticesAfter(first, existing_appliances, d)
                /\ outcome' = Outcome(res)
                /\ self_data' = res.value
                /\ pc' = "idle"
                /\ first_account' =
                       IF first_account = "None" /\ DATAKEY_ACCOUNT \in DOMAIN d
                       THEN d[DATAKEY_ACCOUNT] ELSE first_account
                /\ IF caller = "setup"
                   THEN /\ initialized' = TRUE
                        /\ setup_pc' = "forward_entry_setups"
                   ELSE UNCHANGED <<initialized, setup_pc>>
                /\ fetched' = [fetched EXCEPT !.locations = Ids(xs)]
                /\ UNCHANGED <<api, platforms, setup_result, caller,
                               first_run, calls, cause, unload_ok,
                               prev_failed>>
       \/ \E exc \in ApiErrors : Fail(exc, "get_location_data")

(***************************************************************************)
(* async_setup.                                                            *)
(***************************************************************************)

\* Lines 47-56: the client is built on a worker thread.  The host may call
\* async_setup again after a setup that returned False or raised.
SetupStart ==
    /\ setup_pc \in {"idle", "raised", "returned"}
    /\ ~initialized
    /\ pc = "idle"
    /\ setup_pc' = "to_thread"
    /\ setup_result' = "None"
    /\ UNCHANGED <<api, initialized, devices, self_data, platforms, pc,
                   caller, data, existing_appliances, first_run, calls,
                   outcome, cause, notices, first_account, unload_ok,
                   prev_failed, fetched>>

\* Variant of lines 57-59 that logs the error and goes on to the first
\* refresh, which then ends at line 97.
SetupClientFailed_GoesOn ==
    /\ setup_pc = "to_thread"
    /\ pc = "idle"
    /\ api = "None"
    /\ setup_pc' = "raised"
    /\ setup_result' = "raised"
    /\ outcome' = "UpdateFailed"
    /\ cause' = [phase |-> "api_check", kind |-> "UpdateFailed"]
    /\ UNCHANGED <<api, initialized, devices, self_data, platforms, pc,
                   caller, data, existing_appliances, first_run, calls,
                   notices, first_account, unload_ok, prev_failed, fetched>>

\* Lines 57-59: building the client raised; setup returns False.
SetupClientFailed ==
    /\ setup_pc = "to_thread"
    /\ setup_pc' = "returned"
    /\ setup_result' = "False"
    /\ UNCHANGED <<api, initialized, devices, self_data, platforms, pc,
                   caller, data, existing_appliances, first_run, calls,
                   outcome, cause, notices, first_account, unload_ok,
                   prev_failed, fetched>>

\* Lines 54-62: the client is there, and the first refresh starts.
SetupClientReady ==
    /\ setup_pc = "to_thread"
    /\ pc = "idle"
    /\ api' = "MilaApi"
    /\ setup_pc' = "first_refresh"
    /\ Begin("setup")
    /\ UNCHANGED <<initialized, devices, self_data, platforms, setup_result,
                   first_account, unload_ok>>

\* Lines 66-71: the host has set the platforms up; setup returns True.
SetupForwarded ==
    /\ setup_pc = "forward_entry_setups"
    /\ platforms' = TRUE
    /\ setup_pc' = "returned"
    /\ setup_result' = "True"
    /\ UNCHANGED <<api, initialized, devices, self_data, pc, caller, data,
                   existing_appliances, first_run, calls, outcome, cause,
                   notices, first_account, unload_ok, prev_failed, fetched>>

(***************************************************************************)
(* async_reset.                                                            *)
(***************************************************************************)

\* Variant of async_reset that also cancels the refresh in flight.
AsyncReset_CancelsRefresh ==
    /\ platforms
    /\ \E ok \in BOOLEAN :
          /\ unload_ok' = IF ok THEN "True" ELSE "False"
          /\ platforms' = ~ok
    /\ pc' = "idle"
    /\ outcome' = IF pc = "idle" THEN outcome ELSE "CancelledError"
    /\ UNCHANGED <<api, initialized, devices, self_data, setup_pc,
                   setup_result, caller, data, existing_appliances,
                   first_run, calls, cause, notices, first_account,
                   prev_failed, fetched>>

\* Lines 73-81: the host unloads the platforms and says whether it could.
AsyncReset ==
    /\ platforms
    /\ \E ok \in BOOLEAN :
          /\ unload_ok' = IF ok THEN "True" ELSE "False"
          /\ platforms' = ~ok
    /\ UNCHANGED <<api, initialized, devices, self_data, setup_pc,
                   setup_result, pc, caller, data, existing_appliances,
                   first_run, calls, outcome, cause, notices, first_account,
                   prev_failed, fetched>>

Next ==
    \/ SetupStart
    \/ SetupClientFailed
    \/ SetupClientReady
    \/ SetupForwarded
    \/ Tick
    \/ AccountResponse
    \/ AppliancesResponse
    \/ LocationsResponse
    \/ AsyncReset

(***************************************************************************)
(* Properties.                                                             *)
(***************************************************************************)

\* A step in which a refresh ends, whatever its end.
RefreshEnds == outcome' # "running" /\ (outcome = "running" \/ cause'.phase = "api_check")

SnapshotKeys == {DATAKEY_ACCOUNT, DATAKEY_APPLIANCE, DATAKEY_LOCATION}
LocationKeys == {LocKey(id) : id \in LocationIds}
Failures == {"ConfigEntryAuthFailed", "UpdateFailed", "TimeoutError"}

\* C1: after every successful refresh of an initialized coordinator the
\* stored snapshot still has the account key, and its value is the account
\* record fetched by the first successful refresh.
C1_AccountPersists ==
    (initialized /\ outcome = "ok" /\ ~first_run) =>
        /\ self_data # None
        /\ DATAKEY_ACCOUNT \in DOMAIN self_data
        /\ self_data[DATAKEY_ACCOUNT] = first_account

\* C2: a refresh that ends in an error of any kind, at any phase, leaves the
\* stored snapshot as it was; the stored snapshot changes only in a step
\* that ends a refresh successfully.
C2_FailedRefreshKeepsSnapshot ==
    [][ /\ (RefreshEnds /\ cause'.kind # "None") => self_data' = self_data
        /\ self_data' # self_data => (RefreshEnds /\ outcome' = "ok"
                                         /\ cause'.kind = "None") ]_vars

\* C2 witness: a snapshot with appliances is stored, and a later refresh
\* failed in its last fetch, after its appliance fetch had succeeded.
C2_Witness ==
    /\ self_data # None
    /\ DOMAIN self_data[DATAKEY_APPLIANCE] # {}
    /\ outcome \in Failures
    /\ cause.phase = "get_location_data"
    /\ calls = <<"get_appliances", "get_location_data">>

\* C3: when the fetch that ended a refresh raised the client's authorization
\* error, the refresh ended in ConfigEntryAuthFailed, not in UpdateFailed.
C3_AuthErrorIsAuthFailed ==
    cause.kind = "OAuthError" =>
        outcome = "ConfigEntryAuthFailed" /\ outcome # "UpdateFailed"

\* C3 witness: a refresh after the first one hit the authorization error in
\* its last fetch.
C3_Witness ==
    /\ cause.kind = "OAuthError"
    /\ cause.phase = "get_location_data"
    /\ ~first_run
    /\ initialized

\* C4: a fetch that runs out of time ends the refresh in failure: nothing is
\* returned, the stored snapshot and the registry stay as they were and the
\* coordinator is not marked initialized, whatever was fetched before.
C4_TimeoutFailsWholeRefresh ==
    [][ (RefreshEnds /\ cause'.kind = "TimeoutError") =>
            /\ outcome' \in Failures
            /\ self_data' = self_data
            /\ devices' = devices
            /\ initialized' = initialized
            /\ pc' = "idle" ]_vars

\* C4 witness: the first refresh had fetched the account and the appliances
\* when the location fetch ran out of time; nothing is stored and the
\* registry is empty.
C4_Witness ==
    /\ cause.kind = "TimeoutError"
    /\ cause.phase = "get_location_data"
    /\ first_run
    /\ calls = <<"get_account", "get_appliances", "get_location_data">>
    /\ self_data = None
    /\ devices = EmptyDict

\* C5 as stated: a fetch that runs out of time ends the refresh in the same
\* UpdateFailed signal as a generic API error.
C5_TimeoutIsUpdateFailed ==
    cause.kind = "TimeoutError" => outcome = "UpdateFailed"

\* C5 amended: a fetch that runs out of time ends the refresh in a failure
\* that is the timeout error itself, neither UpdateFailed nor
\* ConfigEntryAuthFailed; a generic API error ends it in UpdateFailed.
C5_TimeoutIsNotTranslated ==
    /\ cause.kind = "TimeoutError" =>
           outcome = "TimeoutError"
    /\ cause.kind = "MilaError" => outcome = "UpdateFailed"

\* C5 witness: the appliance fetch of a later refresh ran out of time.
C5_Witness ==
    /\ cause.kind = "TimeoutError"
    /\ cause.phase = "get_appliances"
    /\ initialized

\* C6: after a successful first refresh the snapshot holds one account
\* record, and the registry holds an Appliance device for every appliance id
\* of the snapshot, a Location device for every loc_<id> key of the snapshot,
\* and nothing else.
C6_FirstRefreshBuildsRegistry ==
    (outcome = "ok" /\ first_run) =>
        /\ self_data # None
        /\ DOMAIN self_data = SnapshotKeys
        /\ self_data[DATAKEY_ACCOUNT] \in Accounts
        /\ DOMAIN self_data[DATAKEY_LOCATION] \subseteq LocationKeys
        /\ DOMAIN devices = DOMAIN self_data[DATAKEY_APPLIANCE]
                               \cup DOMAIN self_data[DATAKEY_LOCATION]
        /\ \A id \in DOMAIN self_data[DATAKEY_APPLIANCE] :
               devices[id] = MilaAppliance(id)
        /\ \A id \in DOMAIN self_data[DATAKEY_LOCATION] :
               devices[id] = MilaLocation(id)

\* C6 witness: a successful first refresh that returned both appliances and
\* locations.
C6_Witness ==
    /\ outcome = "ok"
    /\ first_run
    /\ DOMAIN self_data[DATAKEY_APPLIANCE] = ApplianceIds
    /\ DOMAIN self_data[DATAKEY_LOCATION] # {}

\* C7: a successful refresh after the first one gives a new-device notice
\* for exactly the fetched appliance ids that are not in the snapshot stored
\* before it, for no location key, and leaves the registry as it was.
C7_NoticesAreTheNewIds ==
    [][ (RefreshEnds /\ outcome' = "ok" /\ ~first_run') =>
            /\ notices' = DOMAIN self_data'[DATAKEY_APPLIANCE]
                             \ ExistingAppliances(self_data)
            /\ notices' \cap DOMAIN self_data'[DATAKEY_LOCATION] = {}
            /\ devices' = devices ]_vars

\* C7 witness: a later refresh returned a known appliance and a new one, and
\* the notice names the new one, which the registry does not hold.
C7_Witness ==
    /\ outcome = "ok"
    /\ ~first_run
    /\ notices # {}
    /\ notices # DOMAIN self_data[DATAKEY_APPLIANCE]
    /\ notices \cap DOMAIN devices = {}

\* C8: once the coordinator is initialized, no step changes the registry.
C8_RegistryFrozen ==
    [][ initialized => devices' = devices ]_vars

\* C8 witness: a later refresh returned an id the registry does not hold and
\* omitted one it holds, and the platforms have since been unloaded.
C8_Witness ==
    /\ initialized
    /\ outcome = "ok"
    /\ ~first_run
    /\ \E id \in DOMAIN self_data[DATAKEY_APPLIANCE] : id \notin DOMAIN devices
    /\ \E id \in DOMAIN devices :
           id \in ApplianceIds /\ id \notin DOMAIN self_data[DATAKEY_APPLIANCE]
    /\ unload_ok = "True"

\* C9: while the first refresh has failed, no snapshot is stored, no account
\* is recorded, the registry is empty and the coordinator is not initialized;
\* the registry changes only in the step that ends a first refresh whose
\* three fetches succeeded.
C9_FailedFirstRefreshLeavesNothing ==
    [][ /\ (first_run' /\ outcome' \in Failures) =>
               /\ self_data' = None
               /\ first_account' = "None"
               /\ devices' = EmptyDict
               /\ ~initialized'
               /\ ~platforms'
        /\ devices' # devices =>
               /\ RefreshEnds
               /\ outcome' = "ok"
               /\ first_run'
               /\ calls' = <<"get_account", "get_appliances",
                             "get_location_data">>
               /\ DOMAIN self_data' = SnapshotKeys ]_vars

\* C9 witness: the account fetch of the first refresh raised a generic API
\* error and setup ended by raising.
C9_Witness ==
    /\ first_run
    /\ cause = [phase |-> "get_account", kind |-> "MilaError"]
    /\ outcome = "UpdateFailed"
    /\ setup_pc = "raised"
    /\ devices = EmptyDict

\* C10: a refresh ends in UpdateFailed exactly when the fetch that ended it
\* raised a generic API error or the client was None; with the client None
\* it ends before any call on the client and leaves the registry alone.
C10_UpdateFailedCases ==
    [][ /\ outcome' = "UpdateFailed" <=>
               (cause'.kind = "MilaError" \/ cause'.phase = "api_check")
        /\ cause'.phase = "api_check" <=> (outcome' # "running" /\ api' = "None"
                                              /\ cause'.kind # "None")
        /\ (RefreshEnds /\ cause'.phase = "api_check") =>
               /\ calls' = <<>>
               /\ data' = EmptyDict
               /\ devices' = devices
               /\ self_data' = self_data ]_vars

\* C10 witness: building the client failed in setup, and a refresh asked for
\* afterwards ended in UpdateFailed at the check of the client.
C10_Witness ==
    /\ outcome = "UpdateFailed"
    /\ cause.phase = "api_check"
    /\ api = "None"
    /\ setup_result = "False"

\* C11: when building the client raises, async_setup returns False and
\* changes nothing else: the client is as it was (None when no setup got
\* further before), no refresh is started, and the coordinator is not
\* initialized, has no snapshot, an empty registry and no platforms.
C11_ClientFailureAbortsSetup ==
    [][ (setup_pc = "to_thread" /\ setup_pc' \notin {"to_thread", "first_refresh"}) =>
            /\ setup_pc' = "returned"
            /\ setup_result' = "False"
            /\ api' = api
            /\ (outcome = "None" => api' = "None")
            /\ ~initialized'
            /\ self_data' = None
            /\ devices' = EmptyDict
            /\ ~platforms'
            /\ pc' = "idle"
            /\ UNCHANGED <<outcome, cause, calls, caller, first_run,
                           notices, first_account, unload_ok>> ]_vars

\* C11 witness: the first setup returned False; there is no client and no
\* refresh has ever been asked for.
C11_Witness ==
    /\ setup_pc = "returned"
    /\ setup_result = "False"
    /\ api = "None"
    /\ outcome = "None"
    /\ calls = <<>>
    /\ ~platforms

\* C12: platforms are set up only for an initialized coordinator, and only
\* by the setup whose first refresh succeeded; the coordinator becomes
\* initialized only in the step that ends that refresh, which stores the
\* snapshot and builds the registry from it; a setup whose first refresh
\* failed raises with the coordinator not initialized and no platforms.
C12_PlatformsAfterInitialized ==
    [][ /\ platforms' => initialized'
        /\ setup_pc' = "forward_entry_setups" => initialized'
        /\ initialized' => (self_data' # None /\ first_account' # "None")
        /\ (initialized' /\ ~initialized) =>
               /\ RefreshEnds
               /\ outcome' = "ok"
               /\ caller = "setup"
               /\ setup_pc = "first_refresh"
               /\ DOMAIN devices' = DOMAIN self_data'[DATAKEY_APPLIANCE]
                                       \cup DOMAIN self_data'[DATAKEY_LOCATION]
        /\ (platforms' /\ ~platforms) =>
               (setup_pc = "forward_entry_setups" /\ setup_result' = "True")
        /\ (setup_pc = "first_refresh" /\ RefreshEnds /\ cause'.kind # "None") =>
               setup_pc' = "raised"
        /\ setup_pc' = "raised" => (~initialized' /\ ~platforms') ]_vars

\* C12 witness: setup returned True after a first refresh that found devices.
C12_Witness ==
    /\ platforms
    /\ initialized
    /\ setup_result = "True"
    /\ outcome = "ok"
    /\ first_run
    /\ DOMAIN devices # {}

\* C13: after the registry is built from a fetch with appliance ids A and
\* location ids L it has |A| + |L| entries, an Appliance device under every
\* id of A and a Location device under loc_<id> for every id of L.
C13_RegistryKeysUnique ==
    (outcome = "ok" /\ first_run) =>
        /\ Cardinality(DOMAIN devices) =
               Cardinality(fetched.appliances) + Cardinality(fetched.locations)
        /\ \A id \in fetched.appliances :
               id \in DOMAIN devices /\ devices[id] = MilaAppliance(id)
        /\ \A id \in fetched.locations :
               /\ LocKey(id) \in DOMAIN devices
               /\ devices[LocKey(id)] = MilaLocation(LocKey(id))

\* C13 witness: the first refresh returned an appliance and a location with
\* the same id.
C13_Witness ==
    /\ outcome = "ok"
    /\ first_run
    /\ fetched.appliances \cap fetched.locations # {}

\* C14: async_reset changes only whether the platforms are set up, and
\* returns whether the host unloaded them; the client, the flag, the
\* snapshot, the registry and a refresh in flight are left as they are.
C14_ResetOnlyUnloads ==
    [][ (unload_ok' # unload_ok \/ (platforms /\ ~platforms')) =>
            /\ platforms
            /\ unload_ok' \in {"True", "False"}
            /\ platforms' <=> (unload_ok' = "False")
            /\ UNCHANGED <<api, initialized, devices, self_data, setup_pc,
                           setup_result, pc, caller, data,
                           existing_appliances, first_run, calls, outcome,
                           cause, notices, fetched>> ]_vars

\* C14 witness: the platforms were unloaded and a refresh is waiting for its
\* last fetch.
C14_Witness ==
    /\ unload_ok = "True"
    /\ ~platforms
    /\ initialized
    /\ pc = "get_location_data"
    /\ outcome = "running"

\* The calls a refresh issues when all of them succeed.
ExpectedCalls(first) ==
    IF first THEN <<"get_account", "get_appliances", "get_location_data">>
    ELSE <<"get_appliances", "get_location_data">>

IsPrefix(xs, ys) == Len(xs) <= Len(ys) /\ xs = SubSeq(ys, 1, Len(xs))

\* C15: a failed refresh of an initialized coordinator leaves the flag, the
\* registry and the snapshot as they were and does not stop the host from
\* asking again; a later refresh whose fetches all succeed ends ok, stores
\* its snapshot and leaves the coordinator initialized with the same registry.
C15_FailureIsNotTerminal ==
    /\ []((initialized /\ pc = "idle" /\ outcome \in Failures) => ENABLED Tick)
    /\ [][ /\ (RefreshEnds /\ ~first_run' /\ cause'.kind # "None") =>
                  /\ initialized' = initialized
                  /\ devices' = devices
                  /\ self_data' = self_data
                  /\ pc' = "idle"
           /\ (RefreshEnds /\ ~first_run' /\ cause'.kind = "None") =>
                  /\ outcome' = "ok"
                  /\ self_data' # None
                  /\ DOMAIN self_data'[DATAKEY_APPLIANCE] = fetched'.appliances
                  /\ initialized'
                  /\ devices' = devices ]_vars

\* C15 witness: an initialized coordinator whose refresh ended ok right after
\* one that had failed.
C15_Witness ==
    /\ initialized
    /\ ~first_run
    /\ prev_failed
    /\ outcome = "ok"
    /\ pc = "idle"
    /\ self_data # None

\* C16 as stated: get_account is asked for only by the first refresh ever
\* invoked on the coordinator.
C16_AccountOnFirstInvocationOnly ==
    [][ (pc' = "get_account" /\ pc # "get_account") => outcome = "None" ]_vars

\* C16 amended: a refresh asks for the account exactly when it starts with a
\* client on a coordinator that is not initialized, as its first call and
\* only once; a refresh of an initialized coordinator never asks for it.
C16_AccountWhileNotInitialized ==
    [][ /\ (outcome' = "running" /\ outcome # "running") =>
               ((pc' = "get_account") <=> ~initialized)
        /\ (pc' = "get_account" /\ pc # "get_account") =>
               (outcome' = "running" /\ outcome # "running" /\ ~initialized)
        /\ \A i \in 2..Len(calls') : calls'[i] # "get_account"
        /\ initialized' => pc' # "get_account" ]_vars

\* C16 witness: after a first refresh that failed, the refresh of the next
\* setup is waiting for the account again.
C16_Witness ==
    /\ pc = "get_account"
    /\ prev_failed
    /\ ~initialized
    /\ calls = <<"get_account">>

\* C17: after a successful refresh the appliance keys of the snapshot are the
\* ids the appliance fetch of that refresh returned, and its location keys
\* are loc_<id> for the ids its location fetch returned.
C17_SnapshotReplacedWholesale ==
    outcome = "ok" =>
        /\ self_data # None
        /\ DOMAIN self_data \subseteq SnapshotKeys
        /\ DOMAIN self_data[DATAKEY_APPLIANCE] = fetched.appliances
        /\ DOMAIN self_data[DATAKEY_LOCATION] =
               {LocKey(id) : id \in fetched.locations}
        /\ \A id \in fetched.appliances :
               self_data[DATAKEY_APPLIANCE][id] = [id |-> id]

\* C17 witness: after a later refresh the snapshot lacks an appliance and a
\* location that the registry, built from the first snapshot, holds.
C17_Witness ==
    /\ outcome = "ok"
    /\ ~first_run
    /\ \E id \in ApplianceIds :
           id \in DOMAIN devices /\ id \notin DOMAIN self_data[DATAKEY_APPLIANCE]
    /\ \E k \in LocationKeys :
           k \in DOMAIN devices /\ k \notin DOMAIN self_data[DATAKEY_LOCATION]

\* C18: the calls of a refresh are issued in the order account (first run
\* only), appliances, locations; the call that fails is the last one issued,
\* and its error alone decides how the refresh ends.
C18_FetchOrderAndFirstFailure ==
    /\ IsPrefix(calls, ExpectedCalls(first_run))
    /\ pc # "idle" => (calls # <<>> /\ calls[Len(calls)] = pc
                          /\ outcome = "running")
    /\ outcome = "ok" => (calls = ExpectedCalls(first_run) /\ cause = NoCause)
    /\ (outcome \in Failures /\ cause.phase # "api_check") =>
           /\ calls # <<>>
           /\ calls[Len(calls)] = cause.phase
           /\ outcome = (CASE cause.kind = "OAuthError" -> "ConfigEntryAuthFailed"
                           [] cause.kind = "MilaError" -> "UpdateFailed"
                           [] OTHER -> cause.kind)

\* C18 witness: the appliance fetch of the first refresh raised a generic
\* error; the location fetch was never issued and the refresh ended in
\* UpdateFailed.
C18_Witness ==
    /\ first_run
    /\ cause = [phase |-> "get_appliances", kind |-> "MilaError"]
    /\ calls = <<"get_account", "get_appliances">>
    /\ outcome = "UpdateFailed"

\* C19: the baseline of a refresh in flight is the appliance key set of the
\* stored snapshot; a successful later refresh names in its notices exactly
\* the fetched ids that the stored snapshot lacks, whether or not the
\* registry holds them; a refresh that fails gives no notice and leaves the
\* baseline as it was.
C19_BaselineIsStoredSnapshot ==
    [][ /\ (pc' # "idle" /\ initialized') =>
               /\ self_data' # None
               /\ existing_appliances' = DOMAIN self_data'[DATAKEY_APPLIANCE]
        /\ (RefreshEnds /\ outcome' = "ok" /\ ~first_run') =>
               \A id \in fetched'.appliances :
                   id \in notices' <=>
                       id \notin DOMAIN self_data[DATAKEY_APPLIANCE]
        /\ (RefreshEnds /\ cause'.kind # "None") =>
               /\ notices' = {}
               /\ self_data' = self_data ]_vars

\* C19 witness: a failed refresh lies between the snapshot in which an
\* appliance unknown to the registry was stored and the successful refresh
\* that has just fetched it again without a notice.
C19_Witness ==
    /\ outcome = "ok"
    /\ ~first_run
    /\ prev_failed
    /\ notices = {}
    /\ \E id \in DOMAIN self_data[DATAKEY_APPLIANCE] : id \notin DOMAIN devices

Spec == Init /\ [][Next]_vars

====
